---- MODULE Spec2Model ----
(***************************************************************************)
(* The function-calling dispatch layer of llmt: OpenAIFunctionSet          *)
(* (src/llmt/functions/sets.py) with the demo callables of                 *)
(* src/udfs/udfs.py as the host-provided tools.                            *)
(*                                                                         *)
(* Python str values that the program inspects character by character (the *)
(* raw "arguments" of a FunctionCall, JSON string values) are sequences of *)
(* one-character strings.  Names that are only compared for equality       *)
(* (function names, descriptions) are TLA+ strings.                        *)
(***************************************************************************)
EXTENDS Integers, Sequences, FiniteSets, TLC

(***************************************************************************)
(* Bounds of the model.                                                    *)
(***************************************************************************)
MaxTools == 2
MaxFactories == 1

(***************************************************************************)
(* Python values.  None is PyNone; a JSON / Python value is a record       *)
(* tagged by "kind".                                                       *)
(***************************************************************************)
PyNone == "<None>"

NullV == [kind |-> "null"]
BoolV(b) == [kind |-> "bool", b |-> b]
IntV(n) == [kind |-> "int", n |-> n]
StrV(s) == [kind |-> "str", s |-> s]
ArrV(xs) == [kind |-> "array", elems |-> xs]
ObjV(m) == [kind |-> "object", members |-> m]
EmptyDict == [k \in {} |-> NullV]

(***************************************************************************)
(* json.loads, as run_function uses it: the JSON grammar over objects,     *)
(* arrays, strings without escapes, integers and the three literals,       *)
(* with blanks between tokens.  A parse step yields                        *)
(* [ok, val, next]: next is the index after the value.                     *)
(***************************************************************************)
Digits == <<"0", "1", "2", "3", "4", "5", "6", "7", "8", "9">>
IsDigit(c) == \E d \in 1..Len(Digits) : Digits[d] = c
DigitVal(c) == (CHOOSE d \in 1..Len(Digits) : Digits[d] = c) - 1
Fail == [ok |-> FALSE, val |-> NullV, next |-> 0]
Ok(v, n) == [ok |-> TRUE, val |-> v, next |-> n]

RECURSIVE SkipWs(_, _)
SkipWs(s, i) == IF i <= Len(s) /\ s[i] = " " THEN SkipWs(s, i + 1) ELSE i

HasAt(s, i, lit) ==
    /\ i + Len(lit) - 1 <= Len(s)
    /\ \A k \in 1..Len(lit) : s[i + k - 1] = lit[k]

RECURSIVE ScanDigits(_, _, _)
ScanDigits(s, i, acc) ==
    IF i <= Len(s) /\ IsDigit(s[i])
    THEN ScanDigits(s, i + 1, acc * 10 + DigitVal(s[i]))
    ELSE Ok(IntV(acc), i)

ParseNumber(s, i) ==
    LET neg == i <= Len(s) /\ s[i] = "-"
        j == IF neg THEN i + 1 ELSE i
    IN  IF ~(j <= Len(s) /\ IsDigit(s[j])) THEN Fail
        ELSE IF s[j] = "0"
        THEN Ok(IntV(0), j + 1)
        ELSE LET r == ScanDigits(s, j, 0)
             IN  Ok(IntV(IF neg THEN 0 - r.val.n ELSE r.val.n), r.next)

RECURSIVE ScanString(_, _, _)
ScanString(s, i, acc) ==
    IF i > Len(s) THEN Fail
    ELSE IF s[i] = "\"" THEN Ok(StrV(acc), i + 1)
    ELSE ScanString(s, i + 1, Append(acc, s[i]))

ParseString(s, i) ==
    IF i <= Len(s) /\ s[i] = "\"" THEN ScanString(s, i + 1, <<>>) ELSE Fail

RECURSIVE ParseValue(_, _)
RECURSIVE ParseElems(_, _, _)
RECURSIVE ParseMembers(_, _, _)

ParseElems(s, i, acc) ==
    LET v == ParseValue(s, SkipWs(s, i))
    IN  IF ~v.ok THEN Fail
        ELSE LET j == SkipWs(s, v.next)
             IN  IF j > Len(s) THEN Fail
                 ELSE IF s[j] = "]" THEN Ok(ArrV(Append(acc, v.val)), j + 1)
                 ELSE IF s[j] = "," THEN ParseElems(s, j + 1, Append(acc, v.val))
                 ELSE Fail

ParseMembers(s, i, acc) ==
    LET k == ParseString(s, SkipWs(s, i))
    IN  IF ~k.ok THEN Fail
        ELSE LET c == SkipWs(s, k.next)
             IN  IF ~(c <= Len(s) /\ s[c] = ":") THEN Fail
                 ELSE LET v == ParseValue(s, SkipWs(s, c + 1))
                      IN  IF ~v.ok THEN Fail
                          ELSE LET j == SkipWs(s, v.next)
                                   m == (k.val.s :> v.val) @@ acc
                               IN  IF j > Len(s) THEN Fail
                                   ELSE IF s[j] = "}" THEN Ok(ObjV(m), j + 1)
                                   ELSE IF s[j] = "," THEN ParseMembers(s, j + 1, m)
                                   ELSE Fail

ParseValue(s, i) ==
    IF i > Len(s) THEN Fail
    ELSE IF s[i] = "{"
    THEN LET j == SkipWs(s, i + 1)
         IN  IF j <= Len(s) /\ s[j] = "}" THEN Ok(ObjV(EmptyDict), j + 1)
             ELSE ParseMembers(s, j, EmptyDict)
    ELSE IF s[i] = "["
    THEN LET j == SkipWs(s, i + 1)
         IN  IF j <= Len(s) /\ s[j] = "]" THEN Ok(ArrV(<<>>), j + 1)
             ELSE ParseElems(s, j, <<>>)
    ELSE IF s[i] = "\"" THEN ParseString(s, i)
    ELSE IF HasAt(s, i, <<"t", "r", "u", "e">>) THEN Ok(BoolV(TRUE), i + 4)
    ELSE IF HasAt(s, i, <<"f", "a", "l", "s", "e">>) THEN Ok(BoolV(FALSE), i + 5)
    ELSE IF HasAt(s, i, <<"n", "u", "l", "l">>) THEN Ok(NullV, i + 4)
    ELSE ParseNumber(s, i)

\* json.loads(s): the value, or JSONDecodeError (ok = FALSE) on a malformed
\* document, an empty one, or one with data after the value.
JsonLoads(s) ==
    LET v == ParseValue(s, SkipWs(s, 1))
    IN  IF v.ok /\ SkipWs(s, v.next) = Len(s) + 1 THEN v ELSE Fail

(***************************************************************************)
(* Python exceptions and the outcome of a call: the exception raised (or   *)
(* NoExc), the value returned (NoneV when nothing is returned), and the    *)
(* host callables invoked while it ran, in order.                          *)
(***************************************************************************)
NoneV == [kind |-> "None"]
NoExc == [type |-> PyNone]
Exc(type) == [type |-> type]
ExcWith(type, arg) == [type |-> type, arg |-> arg]
Returned(v, calls) == [exc |-> NoExc, ret |-> v, calls |-> calls]
Raised(e, calls) == [exc |-> e, ret |-> NoneV, calls |-> calls]

(***************************************************************************)
(* The host callables: src/udfs/udfs.py.                                   *)
(***************************************************************************)
value1 == <<"v", "a", "l", "u", "e", "1">>
value2 == <<"v", "a", "l", "u", "e", "2">>

IsNum(v) == v.kind \in {"int", "bool"}
Num(v) == IF v.kind = "int" THEN v.n ELSE IF v.b THEN 1 ELSE 0

\* Python's a + b on the values JSON can produce.
PyAdd(a, b) ==
    IF IsNum(a) /\ IsNum(b) THEN Returned(IntV(Num(a) + Num(b)), <<>>)
    ELSE IF a.kind = "str" /\ b.kind = "str" THEN Returned(StrV(a.s \o b.s), <<>>)
    ELSE IF a.kind = "array" /\ b.kind = "array"
    THEN Returned(ArrV(a.elems \o b.elems), <<>>)
    ELSE Raised(Exc("TypeError"), <<>>)

\* Binding **kwargs to the two required parameters value1, value2.
BindsTwoValues(kwargs) == DOMAIN kwargs = {value1, value2}

add_decimal_values(kwargs) ==
    IF ~BindsTwoValues(kwargs) THEN Raised(Exc("TypeError"), <<>>)
    ELSE PyAdd(kwargs[value1], kwargs[value2])

HexLower == <<"0", "1", "2", "3", "4", "5", "6", "7", "8", "9",
              "a", "b", "c", "d", "e", "f">>
HexUpper == <<"0", "1", "2", "3", "4", "5", "6", "7", "8", "9",
              "A", "B", "C", "D", "E", "F">>
IsHexDigit(c) == \E d \in 1..Len(HexLower) : HexLower[d] = c \/ HexUpper[d] = c
HexDigitVal(c) ==
    (CHOOSE d \in 1..Len(HexLower) : HexLower[d] = c \/ HexUpper[d] = c) - 1

RECURSIVE HexValue(_, _)
HexValue(s, acc) ==
    IF s = <<>> THEN acc
    ELSE HexValue(Tail(s), acc * Len(HexLower) + HexDigitVal(Head(s)))

\* int(v, 16) for a string of plain hexadecimal digits (no sign, prefix,
\* blanks or underscores).
IntBase16(v) ==
    IF v.kind # "str" THEN Raised(Exc("TypeError"), <<>>)
    ELSE IF v.s = <<>> \/ \E i \in 1..Len(v.s) : ~IsHexDigit(v.s[i])
    THEN Raised(Exc("ValueError"), <<>>)
    ELSE Returned(IntV(HexValue(v.s, 0)), <<>>)

\* hex(n)[2:] for n >= 0.
RECURSIVE HexString(_)
HexString(n) ==
    IF n < Len(HexLower) THEN <<HexLower[n + 1]>>
    ELSE Append(HexString(n \div Len(HexLower)), HexLower[(n % Len(HexLower)) + 1])

add_hexadecimal_values(kwargs) ==
    IF ~BindsTwoValues(kwargs) THEN Raised(Exc("TypeError"), <<>>)
    ELSE LET decimal1 == IntBase16(kwargs[value1])
         IN  IF decimal1.exc # NoExc THEN decimal1
             ELSE LET decimal2 == IntBase16(kwargs[value2])
                  IN  IF decimal2.exc # NoExc THEN decimal2
                      ELSE Returned(StrV(HexString(decimal1.ret.n + decimal2.ret.n)), <<>>)

\* A callable is represented by its definition name, which is its __name__.
Callables == {"add_decimal_values", "add_hexadecimal_values"}

\* func(**kwargs): the call is logged, then the body runs.
Invoke(func, kwargs) ==
    LET r == IF func = "add_decimal_values" THEN add_decimal_values(kwargs)
             ELSE add_hexadecimal_values(kwargs)
    IN  [r EXCEPT !.calls = <<func>>]

\* First line of the callable's docstring.
DocSummary(func) ==
    IF func = "add_decimal_values" THEN "Add two decimal values together."
    ELSE "Add two hexadecimal values together."

\* JSON type of the declared parameters value1, value2.
ParamType(func) == IF func = "add_decimal_values" THEN "integer" ELSE "string"

(***************************************************************************)
(* The tool objects (OpenAIFunction): FunctionWrapper and its              *)
(* WrapperConfig, and the result types.                                    *)
(***************************************************************************)
WrapperConfig(parsers, save_return, serialize, remove_call, interpret_as_response) ==
    [parsers |-> parsers, save_return |-> save_return, serialize |-> serialize,
     remove_call |-> remove_call, interpret_as_response |-> interpret_as_response]

FunctionWrapper(func, config, name, description) ==
    [func |-> func, config |-> config, name |-> name, description |-> description]

\* function.name: the override, else the callable's identifier.
ToolName(t) == IF t.name # PyNone THEN t.name ELSE t.func

ToolDescription(t) ==
    IF t.description # PyNone THEN t.description ELSE DocSummary(t.func)

\* function.schema: the descriptor sent to the model.
ToolSchema(t) ==
    [name |-> ToolName(t),
     description |-> ToolDescription(t),
     parameters |-> [type |-> "object",
                     properties |-> [p \in {value1, value2} |-> ParamType(t.func)],
                     required |-> {value1, value2}]]

\* function(arguments): the parsed arguments expanded as keyword arguments;
\* ** of a value that is no mapping is a TypeError before any call.
ToolCall(t, arguments) ==
    IF arguments.kind # "object" THEN Raised(Exc("TypeError"), <<>>)
    ELSE Invoke(t.func, arguments.members)

\* RawFunctionResult(result, serialize=...): with serialize off the value
\* must already be a string.
RawFunctionResult(result, serialize) ==
    IF ~serialize /\ result.kind # "str"
    THEN Raised(Exc("ConfigurationError"), <<>>)
    ELSE Returned([result |-> result, serialize |-> serialize], <<>>)

FunctionResult(name, raw_result, remove_call, interpret_as_response) ==
    [name |-> name, raw_result |-> raw_result, remove_call |-> remove_call,
     interpret_as_response |-> interpret_as_response]

(***************************************************************************)
(* OpenAIFunctionSet.  self is the list self.functions.                    *)
(***************************************************************************)
\* Variants of the code with one plausible slip each, used to test that the
\* properties below depend on the definition they follow.
\* Insertion at the front instead of the back.
_add_function_front(self, function) == <<function>> \o self

\* A registration dropped when its name is already listed.
_add_function_unique(self, function) ==
    IF \E i \in 1..Len(self) : ToolName(self[i]) = ToolName(function)
    THEN self
    ELSE Append(self, function)

_add_function(self, function) == Append(self, function)

functions_schema(self) == [i \in 1..Len(self) |-> ToolSchema(self[i])]

RECURSIVE FindFrom(_, _, _)
FindFrom(self, function_name, i) ==
    IF i > Len(self)
    THEN Raised(ExcWith("FunctionNotFoundError", function_name), <<>>)
    ELSE IF ToolName(self[i]) = function_name THEN Returned(self[i], <<>>)
    ELSE FindFrom(self, function_name, i + 1)

RECURSIVE FindBackFrom(_, _, _)
FindBackFrom(self, function_name, i) ==
    IF i < 1
    THEN Raised(ExcWith("FunctionNotFoundError", function_name), <<>>)
    ELSE IF ToolName(self[i]) = function_name THEN Returned(self[i], <<>>)
    ELSE FindBackFrom(self, function_name, i - 1)

\* The latest match instead of the earliest.
find_function_last(self, function_name) ==
    FindBackFrom(self, function_name, Len(self))

find_function(self, function_name) == FindFrom(self, function_name, 1)

\* save_return ignored.
get_function_result_keeps(function, arguments) ==
    LET result == ToolCall(function, arguments)
    IN  IF result.exc # NoExc THEN result
        ELSE LET raw == RawFunctionResult(result.ret, function.config.serialize)
             IN  [raw EXCEPT !.calls = result.calls]

\* The tool's serialize flag not handed on.
get_function_result_serializing(function, arguments) ==
    LET result == ToolCall(function, arguments)
    IN  IF result.exc # NoExc THEN result
        ELSE IF function.config.save_return
        THEN LET raw == RawFunctionResult(result.ret, TRUE)
             IN  [raw EXCEPT !.calls = result.calls]
        ELSE Returned(NoneV, result.calls)

get_function_result(function, arguments) ==
    LET result == ToolCall(function, arguments)
    IN  IF result.exc # NoExc THEN result
        ELSE IF function.config.save_return
        THEN LET raw == RawFunctionResult(result.ret, function.config.serialize)
             IN  [raw EXCEPT !.calls = result.calls]
        ELSE Returned(NoneV, result.calls)

\* The rest of run_function once the arguments are parsed: an exception of
\* get_function_result propagates, else the FunctionResult is built.
FinishRun(function, result) ==
    IF result.exc # NoExc THEN result
    ELSE Returned(
             FunctionResult(ToolName(function), result.ret,
                            function.config.remove_call,
                            function.config.interpret_as_response),
             result.calls)

\* json.loads outside the try: the decoder's own error escapes.
run_function_unwrapped(self, input_data) ==
    LET function == find_function(self, input_data.name)
    IN  IF function.exc # NoExc THEN function
        ELSE LET arguments == JsonLoads(input_data.arguments)
             IN  IF ~arguments.ok
                 THEN Raised(Exc("JSONDecodeError"), <<>>)
                 ELSE FinishRun(function.ret,
                                get_function_result(function.ret, arguments.val))

\* The arguments parsed before the name is resolved.
run_function_parse_first(self, input_data) ==
    LET arguments == JsonLoads(input_data.arguments)
    IN  IF ~arguments.ok
        THEN Raised(ExcWith("InvalidJsonError", input_data.arguments), <<>>)
        ELSE LET function == find_function(self, input_data.name)
             IN  IF function.exc # NoExc THEN function
                 ELSE FinishRun(function.ret,
                                get_function_result(function.ret, arguments.val))

run_function(self, input_data) ==
    LET function == find_function(self, input_data.name)
    IN  IF function.exc # NoExc THEN function
        ELSE LET arguments == JsonLoads(input_data.arguments)
             IN  IF ~arguments.ok
                 THEN Raised(ExcWith("InvalidJsonError", input_data.arguments), <<>>)
                 ELSE FinishRun(function.ret,
                                get_function_result(function.ret, arguments.val))

(***************************************************************************)
(* BaseFunctionSet.add_function.  The argument is an OpenAIFunction, a     *)
(* callable or None; kw holds the six keyword arguments.  The result is    *)
(* the new list and the value returned; with no callable that value is     *)
(* functools.partial(self.add_function, **kw).                             *)
(***************************************************************************)
AnOpenAIFunction(t) == [tag |-> "OpenAIFunction", tool |-> t]
ACallable(c) == [tag |-> "callable", func |-> c]
NoFunction == [tag |-> "None"]
Partial(kw) == [tag |-> "partial", keywords |-> kw]

\* The decorator form forgetting to hand serialize on to the partial.
add_function_forgets(self, function, kw) ==
    IF function.tag = "OpenAIFunction"
    THEN [functions |-> _add_function(self, function.tool), ret |-> function]
    ELSE IF function.tag = "callable"
    THEN [functions |->
              _add_function(self,
                  FunctionWrapper(function.func,
                      WrapperConfig(PyNone, kw.save_return, kw.serialize,
                                    kw.remove_call, kw.interpret_as_response),
                      kw.name, kw.description)),
          ret |-> function]
    ELSE [functions |-> self,
          ret |-> [tag |-> "partial",
                   keywords |-> [name |-> kw.name, description |-> kw.description,
                                 save_return |-> kw.save_return, serialize |-> TRUE,
                                 remove_call |-> kw.remove_call,
                                 interpret_as_response |-> kw.interpret_as_response]]]

add_function(self, function, kw) ==
    IF function.tag = "OpenAIFunction"
    THEN [functions |-> _add_function(self, function.tool), ret |-> function]
    ELSE IF function.tag = "callable"
    THEN [functions |->
              _add_function(self,
                  FunctionWrapper(function.func,
                      WrapperConfig(PyNone, kw.save_return, kw.serialize,
                                    kw.remove_call, kw.interpret_as_response),
                      kw.name, kw.description)),
          ret |-> function]
    ELSE [functions |-> self,
          ret |-> Partial([name |-> kw.name, description |-> kw.description,
                           save_return |-> kw.save_return, serialize |-> kw.serialize,
                           remove_call |-> kw.remove_call,
                           interpret_as_response |-> kw.interpret_as_response])]

\* partial(self.add_function, **keywords)(function)
CallPartial(self, p, function) == add_function(self, function, p.keywords)

(***************************************************************************)
(* Inputs.                                                                 *)
(***************************************************************************)
Keywords(name, description, save_return, serialize, remove_call, interpret_as_response) ==
    [name |-> name, description |-> description, save_return |-> save_return,
     serialize |-> serialize, remove_call |-> remove_call,
     interpret_as_response |-> interpret_as_response]

\* The defaults of add_function's keyword arguments.
DefaultKeywords == Keywords(PyNone, PyNone, TRUE, TRUE, FALSE, FALSE)

KeywordChoices ==
    {DefaultKeywords,
     Keywords("add_decimal_values", "Sum", FALSE, TRUE, TRUE, FALSE),
     Keywords(PyNone, PyNone, TRUE, FALSE, FALSE, TRUE)}

\* Tools built by the host and registered as they are.
BuiltTools ==
    {FunctionWrapper("add_hexadecimal_values",
                     WrapperConfig(PyNone, TRUE, TRUE, TRUE, TRUE),
                     "add_hexadecimal_values", "Hex sum")}

\* Names a tool can be registered under, and names no tool ever has.
ToolNames == {"add_decimal_values", "add_hexadecimal_values"}
OtherNames == {"ADD_DECIMAL_VALUES", ""}
FunctionNames == ToolNames \cup OtherNames

Quoted(s) == <<"\"">> \o s \o <<"\"">>
TwoValues(a, b) ==
    <<"{">> \o Quoted(value1) \o <<":", " ">> \o a \o <<",", " ">>
            \o Quoted(value2) \o <<":", " ">> \o b \o <<"}">>

InvalidJson == <<"{", "i", "n", "v", "a", "l", "i", "d", " ", "j", "s", "o", "n">>

ArgumentStrings ==
    {TwoValues(<<"2">>, <<"3">>),
     TwoValues(Quoted(<<"1", "f">>), Quoted(<<"a">>)),
     <<"{", "}">>,
     InvalidJson,
     <<>>,
     <<"[", "1", ",", " ", "2", "]">>,
     <<"5">>,
     <<"n", "u", "l", "l">>,
     <<"t", "r", "u", "e">>,
     Quoted(<<"x">>)}

FunctionCalls ==
    [name : ToolNames, arguments : ArgumentStrings]
        \cup [name : OtherNames, arguments : {TwoValues(<<"2">>, <<"3">>), InvalidJson}]

(***************************************************************************)
(* State: the registry's list, the decorator factories the host holds,     *)
(* the log of registrations made (what was passed, in order), and the      *)
(* last operation with what it returned or raised.                         *)
(***************************************************************************)
VARIABLES functions, factories, registered, last

vars == <<functions, factories, registered, last>>

Init ==
    /\ functions = <<>>
    /\ factories = {}
    /\ registered = <<>>
    /\ last = [op |-> "init"]

\* add_function(tool)
AddOpenAIFunction(t) ==
    /\ Len(functions) < MaxTools
    /\ LET r == add_function(functions, AnOpenAIFunction(t), DefaultKeywords)
       IN  /\ functions' = r.functions
           /\ last' = [op |-> "add_function", function |-> AnOpenAIFunction(t),
                       kw |-> DefaultKeywords, ret |-> r.ret]
    /\ registered' = Append(registered, [function |-> AnOpenAIFunction(t),
                                         kw |-> DefaultKeywords])
    /\ UNCHANGED factories

\* add_function(fn, **kw)
AddCallable(c, kw) ==
    /\ Len(functions) < MaxTools
    /\ LET r == add_function(functions, ACallable(c), kw)
       IN  /\ functions' = r.functions
           /\ last' = [op |-> "add_function", function |-> ACallable(c),
                       kw |-> kw, ret |-> r.ret]
    /\ registered' = Append(registered, [function |-> ACallable(c), kw |-> kw])
    /\ UNCHANGED factories

\* add_function(**kw): the decorator form
MakeFactory(kw) ==
    LET r == add_function(functions, NoFunction, kw)
    IN  /\ r.ret \in factories \/ Cardinality(factories) < MaxFactories
        /\ functions' = r.functions
        /\ factories' = factories \cup {r.ret}
        /\ last' = [op |-> "add_function", function |-> NoFunction,
                    kw |-> kw, ret |-> r.ret]
        /\ UNCHANGED registered

\* factory(fn)
ApplyFactory(p, c) ==
    /\ p \in factories
    /\ Len(functions) < MaxTools
    /\ LET r == CallPartial(functions, p, ACallable(c))
       IN  /\ functions' = r.functions
           /\ last' = [op |-> "factory", partial |-> p, function |-> ACallable(c),
                       ret |-> r.ret]
    /\ registered' = Append(registered, [function |-> ACallable(c), kw |-> p.keywords])
    /\ UNCHANGED factories

ReadFunctionsSchema ==
    /\ last' = [op |-> "functions_schema", ret |-> functions_schema(functions)]
    /\ UNCHANGED <<functions, factories, registered>>

FindFunction(function_name) ==
    /\ last' = [op |-> "find_function", function_name |-> function_name,
                out |-> find_function(functions, function_name)]
    /\ UNCHANGED <<functions, factories, registered>>

\* Dispatch that drops a tool marked remove_call once it has run.
RunFunctionConsuming(input_data) ==
    LET out == run_function(functions, input_data)
        keep == {i \in 1..Len(functions) :
                    ~(out.exc = NoExc /\ out.ret.remove_call
                        /\ ToolName(functions[i]) = input_data.name)}
    IN  /\ last' = [op |-> "run_function", input_data |-> input_data, out |-> out]
        /\ functions' = SelectSeq(functions,
                             LAMBDA t : \E i \in keep : functions[i] = t)
        /\ UNCHANGED <<factories, registered>>

RunFunction(input_data) ==
    /\ last' = [op |-> "run_function", input_data |-> input_data,
                out |-> run_function(functions, input_data)]
    /\ UNCHANGED <<functions, factories, registered>>

Next ==
    \/ \E t \in BuiltTools : AddOpenAIFunction(t)
    \/ \E c \in Callables, kw \in KeywordChoices : AddCallable(c, kw)
    \/ \E kw \in KeywordChoices : MakeFactory(kw)
    \/ \E p \in factories, c \in Callables : ApplyFactory(p, c)
    \/ ReadFunctionsSchema
    \/ \E function_name \in FunctionNames : FindFunction(function_name)
    \/ \E input_data \in FunctionCalls : RunFunction(input_data)

Spec == Init /\ [][Next]_vars
(***************************************************************************)
(* Properties.                                                             *)
(***************************************************************************)
\* The indices of the tools registered under a name, and the first of them.
Matches(name) == {i \in 1..Len(functions) : ToolName(functions[i]) = name}
FirstMatch(name) == CHOOSE i \in Matches(name) : \A j \in Matches(name) : i <= j

\* What a logged registration asked for: the tool to list and its name.
WrappedAs(func, kw) ==
    FunctionWrapper(func,
        WrapperConfig(PyNone, kw.save_return, kw.serialize, kw.remove_call,
                      kw.interpret_as_response),
        kw.name, kw.description)
RegisteredTool(r) ==
    IF r.function.tag = "OpenAIFunction" THEN r.function.tool
    ELSE WrappedAs(r.function.func, r.kw)
ResolvedName(r) ==
    IF r.function.tag = "OpenAIFunction" THEN ToolName(r.function.tool)
    ELSE IF r.kw.name # PyNone THEN r.kw.name
    ELSE r.function.func

MalformedArguments == {InvalidJson, <<>>}
NonObjectArguments ==
    {<<"[", "1", ",", " ", "2", "]">>, <<"5">>, <<"n", "u", "l", "l">>,
     <<"t", "r", "u", "e">>, Quoted(<<"x">>)}

Ran == last.op = "run_function"

\* C1: functions_schema holds one descriptor per registration, in
\* registration order; the i-th is the schema of the i-th registered tool
\* and carries its resolved name; tools of the same name are each listed.
C1_SchemaPerRegistration ==
    last.op = "functions_schema" =>
        /\ Len(last.ret) = Len(registered)
        /\ \A i \in 1..Len(registered) :
              /\ last.ret[i] = ToolSchema(RegisteredTool(registered[i]))
              /\ last.ret[i].name = ResolvedName(registered[i])

C1_Witness ==
    /\ last.op = "functions_schema"
    /\ Len(last.ret) = 2
    /\ last.ret[1].name = last.ret[2].name
    /\ last.ret[1] # last.ret[2]

\* C2: find_function returns the earliest-registered tool of exactly that
\* name, and raises FunctionNotFoundError(name) when there is none.
C2_FindFirst ==
    last.op = "find_function" =>
        IF Matches(last.function_name) = {}
        THEN /\ last.out.exc = ExcWith("FunctionNotFoundError", last.function_name)
             /\ last.out.ret = NoneV
        ELSE /\ last.out.exc = NoExc
             /\ last.out.ret = functions[FirstMatch(last.function_name)]

C2_Witness ==
    /\ last.op = "find_function"
    /\ Cardinality(Matches(last.function_name)) = 2
    /\ functions[1] # functions[2]
    /\ last.out.ret = functions[1]

\* C3: with a registered name and arguments that are not valid JSON,
\* run_function raises InvalidJsonError carrying the arguments string;
\* no callable is invoked and nothing is returned.
C3_InvalidJson ==
    (Ran /\ Matches(last.input_data.name) # {}
         /\ last.input_data.arguments \in MalformedArguments) =>
        /\ last.out.exc = ExcWith("InvalidJsonError", last.input_data.arguments)
        /\ last.out.calls = <<>>
        /\ last.out.ret = NoneV

C3_Witness ==
    /\ Ran
    /\ Matches(last.input_data.name) # {}
    /\ last.input_data.arguments = InvalidJson
    /\ last.out.exc.type = "InvalidJsonError"

\* C4: a run that returns carries the tool's name, remove_call and
\* interpret_as_response, after exactly one invocation of its callable;
\* its value is None when save_return is off, else the callable's return
\* value with the tool's serialize flag.
C4_SaveReturn ==
    (Ran /\ last.out.exc = NoExc) =>
        LET t == functions[FirstMatch(last.input_data.name)]
            returned == Invoke(t.func, JsonLoads(last.input_data.arguments).val.members).ret
        IN  /\ last.out.calls = <<t.func>>
            /\ last.out.ret.name = ToolName(t)
            /\ last.out.ret.remove_call = t.config.remove_call
            /\ last.out.ret.interpret_as_response = t.config.interpret_as_response
            /\ last.out.ret.raw_result =
                  IF t.config.save_return
                  THEN [result |-> returned, serialize |-> t.config.serialize]
                  ELSE NoneV

C4_Witness ==
    /\ Ran
    /\ last.out.exc = NoExc
    /\ ~functions[FirstMatch(last.input_data.name)].config.save_return
    /\ last.out.ret.raw_result = NoneV
    /\ Len(last.out.calls) = 1

C6_OnlyRegistrationChanges ==
    [][last'.op \in {"run_function", "find_function", "functions_schema"} =>
          /\ functions' = functions
          /\ functions_schema(functions') = functions_schema(functions)]_vars

C6_Witness ==
    /\ Ran
    /\ Len(functions) = 2
    /\ last.out.exc = Exc("TypeError")
    /\ last.out.calls # <<>>

\* C7 (as claimed): no two entries of the tool list have the same name.
C7_NamesUnique ==
    \A i, j \in 1..Len(functions) :
        i # j => ToolName(functions[i]) # ToolName(functions[j])

\* C7 (amended): every registration is appended under its resolved name,
\* also when an entry of that name is already listed, so the list has one
\* entry per registration and names repeat exactly as registrations do.
C7_EveryRegistrationListed ==
    /\ Len(functions) = Len(registered)
    /\ \A i \in 1..Len(registered) :
          ToolName(functions[i]) = ResolvedName(registered[i])

C7_Witness ==
    /\ Len(functions) = 2
    /\ ToolName(functions[1]) = ToolName(functions[2])
    /\ last.op \in {"add_function", "factory"}

\* C8: add_function without a callable leaves the list alone and returns a
\* factory for its options; the factory applied to fn, like the direct call
\* add_function(fn, options), appends fn wrapped with those options and
\* returns fn; a built tool is appended as it is and returned.
C8_EntryPointsAgree ==
    [][/\ (last'.op = "add_function" /\ last'.function = NoFunction) =>
             /\ functions' = functions
             /\ last'.ret = Partial(last'.kw)
       /\ (last'.op = "factory") =>
             /\ functions' = Append(functions,
                                 WrappedAs(last'.function.func, last'.partial.keywords))
             /\ last'.ret = last'.function
       /\ (last'.op = "add_function" /\ last'.function.tag = "callable") =>
             /\ functions' = Append(functions, WrappedAs(last'.function.func, last'.kw))
             /\ last'.ret = last'.function
       /\ (last'.op = "add_function" /\ last'.function.tag = "OpenAIFunction") =>
             /\ functions' = Append(functions, last'.function.tool)
             /\ last'.ret = last'.function]_vars

C8_Witness ==
    /\ last.op = "factory"
    /\ ~last.partial.keywords.serialize
    /\ functions[Len(functions)] =
          WrappedAs(last.function.func, last.partial.keywords)
    /\ last.ret = last.function

\* C9: with a name that is not registered, run_function raises
\* FunctionNotFoundError(name) whether or not the arguments parse, and
\* invokes no callable.
C9_NameBeforeArguments ==
    (Ran /\ Matches(last.input_data.name) = {}) =>
        /\ last.out.exc = ExcWith("FunctionNotFoundError", last.input_data.name)
        /\ last.out.calls = <<>>

C9_Witness ==
    /\ Ran
    /\ functions # <<>>
    /\ Matches(last.input_data.name) = {}
    /\ last.input_data.arguments = InvalidJson
    /\ last.out.exc.type = "FunctionNotFoundError"

\* C10 (as claimed): with a registered name and arguments that are valid
\* JSON but no object, run_function raises InvalidJsonError carrying the
\* arguments string and invokes no callable.
C10_OnlyObjectsAccepted ==
    (Ran /\ Matches(last.input_data.name) # {}
         /\ last.input_data.arguments \in NonObjectArguments) =>
        /\ last.out.exc = ExcWith("InvalidJsonError", last.input_data.arguments)
        /\ last.out.calls = <<>>
====
